---------------------------- MODULE Spec2Model ----------------------------
(***************************************************************************)
(* A model of password_generator.py: PasswordGenerator.generate,           *)
(* PasswordGenerator.calculate_strength and the PasswordGeneratorApp       *)
(* handlers that call them.                                                *)
(*                                                                         *)
(* Characters are Unicode code points (integers); a Python str is a        *)
(* sequence of code points.  A (score, label) tuple is a TLA+ tuple.       *)
(***************************************************************************)
EXTENDS Integers, Sequences, FiniteSets, TLC

VARIABLES
    pc,         \* harness of generate: "idle" before a call, "done" after it
    call,       \* the arguments of the last call of generate
    source,     \* what the secure randomness source did during that call
    result,     \* how that call ended
    password,   \* the string handed to calculate_strength
    strength,   \* the (score, label) tuple calculate_strength returned for it
    window      \* the PasswordGeneratorApp instance: its widgets' values

vars == <<pc, call, source, result, password, strength, window>>

---------------------------------------------------------------------------
(* Bounds of the model.                                                    *)

\* generate is called with the lengths 0..MaxLength
MaxLength == 2
\* the lengths below zero generate is called with: -MaxNegLength..-1
MaxNegLength == 1
\* the first draw of a call returns index seed % n, seed in 0..MaxSeed
MaxSeed == 93
\* each further draw moves on by step, step in 0..MaxStep
MaxStep == 3
\* calculate_strength: a character typed is the last one again or, among the
\* first MaxFree, one the password does not have yet
MaxFree == 4
\* calculate_strength: passwords of up to MaxPwdLen characters
MaxPwdLen == 28
\* the app: the slider is moved at most MaxSlide steps away from its start
MaxSlide == 1
\* the app: the first draw of a call returns index seed % n, seed in
\* 0..MaxAppSeed
MaxAppSeed == 0
\* the app: the source fails at draw 1..MaxAppFail, or not at all
MaxAppFail == 1

---------------------------------------------------------------------------
(* The string module's constants, as sequences of code points.             *)

ascii_uppercase == [i \in 1..26 |-> 64 + i]
ascii_lowercase == [i \in 1..26 |-> 96 + i]
digits == [i \in 1..10 |-> 47 + i]
\* !"#$%&'()*+,-./:;<=>?@[\]^_`{|}~
punctuation ==
    <<33, 34, 35, 36, 37, 38, 39, 40, 41, 42, 43, 44, 45, 46, 47,
      58, 59, 60, 61, 62, 63, 64,
      91, 92, 93, 94, 95, 96,
      123, 124, 125, 126>>

Range(s) == {s[i] : i \in DOMAIN s}

---------------------------------------------------------------------------
(* PasswordGenerator.generate                                              *)

\* The secure randomness source during one call: draw i (i = 1, 2, ...) of
\* secrets.choice over n characters returns index (seed + (i-1)*step) % n,
\* except that draw failAt raises (failAt = 0: the source never fails).
Sources(maxSeed, maxFail) ==
    [seed : 0..maxSeed, step : 0..MaxStep, failAt : 0..maxFail]

\* secrets.choice(alphabet), the i-th draw of the call
choice(alphabet, src, i) ==
    alphabet[((src.seed + (i - 1) * src.step) % Len(alphabet)) + 1]

\* a call that returned value after draws draws, and one that raised at draw draws
Returned(value, alphabet, draws) ==
    [status |-> "returned", value |-> value, alphabet |-> alphabet, draws |-> draws]
Raised(alphabet, draws) ==
    [status |-> "raised", alphabet |-> alphabet, draws |-> draws]

\* a faulty variant: Lowercase is appended before Uppercase
alphabet_swapped(use_upper, use_lower, use_numbers, use_symbols) ==
    (IF use_lower THEN ascii_lowercase ELSE <<>>)
    \o (IF use_upper THEN ascii_uppercase ELSE <<>>)
    \o (IF use_numbers THEN digits ELSE <<>>)
    \o (IF use_symbols THEN punctuation ELSE <<>>)

\* lines 25-33: the alphabet, appended class by class
alphabet(use_upper, use_lower, use_numbers, use_symbols) ==
    (IF use_upper THEN ascii_uppercase ELSE <<>>)
    \o (IF use_lower THEN ascii_lowercase ELSE <<>>)
    \o (IF use_numbers THEN digits ELSE <<>>)
    \o (IF use_symbols THEN punctuation ELSE <<>>)

\* range(length): the number of draws the generator expression asks for
range(length) == IF length > 0 THEN length ELSE 0

\* "".join(chars): the str made of the characters drawn
join(chars) == SubSeq(chars, 1, Len(chars))

\* a faulty variant: range(length + 1)
join_choices_extra(alpha, length, src) ==
    IF src.failAt \in 1..range(length + 1)
    THEN Raised(alpha, src.failAt)
    ELSE Returned(join([i \in 1..range(length + 1) |-> choice(alpha, src, i)]),
                  alpha, range(length + 1))

\* a faulty variant: a failing draw is swallowed, the characters drawn so far
\* are returned
join_choices_partial(alpha, length, src) ==
    IF src.failAt \in 1..range(length)
    THEN Returned(join([i \in 1..(src.failAt - 1) |-> choice(alpha, src, i)]),
                  alpha, src.failAt)
    ELSE Returned(join([i \in 1..range(length) |-> choice(alpha, src, i)]),
                  alpha, range(length))

\* line 35: "".join(secrets.choice(alphabet) for _ in range(length)).  A draw
\* that raises ends the generator, the join and the call; nothing catches it.
join_choices(alpha, length, src) ==
    IF src.failAt \in 1..range(length)
    THEN Raised(alpha, src.failAt)
    ELSE Returned(join([i \in 1..range(length) |-> choice(alpha, src, i)]),
                  alpha, range(length))

\* a faulty variant: no early return; secrets.choice raises IndexError on an
\* empty alphabet
generate_unguarded(length, use_upper, use_lower, use_numbers, use_symbols, src) ==
    LET alpha == alphabet(use_upper, use_lower, use_numbers, use_symbols)
    IN  IF alpha = <<>> /\ range(length) > 0
        THEN Raised(alpha, 1)
        ELSE join_choices(alpha, length, src)

\* lines 20-35
generate(length, use_upper, use_lower, use_numbers, use_symbols, src) ==
    IF ~(use_upper \/ use_lower \/ use_numbers \/ use_symbols)
    THEN Returned(<<>>, <<>>, 0)           \* line 23, before any alphabet is built
    ELSE join_choices(alphabet(use_upper, use_lower, use_numbers, use_symbols),
                      length, src)

\* the arguments of one call of generate
Invocation(length, use_upper, use_lower, use_numbers, use_symbols) ==
    [length |-> length, use_upper |-> use_upper, use_lower |-> use_lower,
     use_numbers |-> use_numbers, use_symbols |-> use_symbols]

NoCall == Invocation(0, FALSE, FALSE, FALSE, FALSE)
NoSource == [seed |-> 0, step |-> 0, failAt |-> 0]
NoResult == [status |-> "none"]

Lengths == (0 - MaxNegLength)..MaxLength

\* a caller invokes generate(length, use_upper, use_lower, use_numbers, use_symbols)
Generate ==
    /\ pc = "idle"
    /\ pc' = "done"
    /\ \E length \in Lengths, use_upper \in BOOLEAN, use_lower \in BOOLEAN,
          use_numbers \in BOOLEAN, use_symbols \in BOOLEAN,
          src \in Sources(MaxSeed, MaxLength) :
            /\ call' = Invocation(length, use_upper, use_lower, use_numbers,
                                  use_symbols)
            /\ source' = src
            /\ result' = generate(length, use_upper, use_lower, use_numbers,
                                  use_symbols, src)
    /\ UNCHANGED <<password, strength, window>>

\* the caller is done with the result; the next call starts from nothing kept
Forget ==
    /\ pc = "done"
    /\ pc' = "idle"
    /\ call' = NoCall
    /\ source' = NoSource
    /\ result' = NoResult
    /\ UNCHANGED <<password, strength, window>>

---------------------------------------------------------------------------
(* PasswordGenerator.calculate_strength                                    *)

\* The characters the passwords handed to calculate_strength are made of:
\* A a 0 ! and, outside the four ASCII classes, space, É (U+00C9), é (U+00E9)
\* and the superscript two (U+00B2).
Chars == {65, 97, 48, 33, 32, 201, 233, 178}

\* str.isupper, str.islower and str.isdigit of one character follow the Unicode
\* database: É is an uppercase letter, é a lowercase one, the superscript two
\* a digit, and the space is none of them.
isupper(c) == c \in 65..90 \/ c = 201
islower(c) == c \in 97..122 \/ c = 233
isdigit(c) == c \in 48..57 \/ c = 178

\* c in string.punctuation, for a str c of one character
punctuation_chars == Range(punctuation)
in_punctuation(c) == c \in punctuation_chars

\* a faulty variant: the symbols' line assigns instead of adding (pool_size = 32)
pool_size_assign(pwd) ==
    IF (\E i \in DOMAIN pwd : in_punctuation(pwd[i]))
    THEN 32
    ELSE (IF (\E i \in DOMAIN pwd : isupper(pwd[i])) THEN 26 ELSE 0)
         + (IF (\E i \in DOMAIN pwd : islower(pwd[i])) THEN 26 ELSE 0)
         + (IF (\E i \in DOMAIN pwd : isdigit(pwd[i])) THEN 10 ELSE 0)

\* lines 43-47
pool_size(pwd) ==
    (IF (\E i \in DOMAIN pwd : isupper(pwd[i])) THEN 26 ELSE 0)
    + (IF (\E i \in DOMAIN pwd : islower(pwd[i])) THEN 26 ELSE 0)
    + (IF (\E i \in DOMAIN pwd : isdigit(pwd[i])) THEN 10 ELSE 0)
    + (IF (\E i \in DOMAIN pwd : in_punctuation(pwd[i])) THEN 32 ELSE 0)

\* Entropies are kept in millionths of a bit.
Micro == 10^6

\* math.log2 of the pool sizes lines 43-47 can produce, in millionths of a bit,
\* rounded down (log2(32) is exactly 5).
log2(n) ==
    CASE n = 10 -> 3321928
      [] n = 26 -> 4700439
      [] n = 32 -> 5000000
      [] n = 36 -> 5169925
      [] n = 42 -> 5392317
      [] n = 52 -> 5700439
      [] n = 58 -> 5857980
      [] n = 62 -> 5954196
      [] n = 68 -> 6087462
      [] n = 84 -> 6392317
      [] n = 94 -> 6554588

\* a faulty variant: the third threshold excludes its lower bound (entropy <= 60)
grade_exclusive(entropy) ==
    IF entropy < 28 * Micro THEN <<0, "Weak">>
    ELSE IF entropy < 36 * Micro THEN <<1, "Fair">>
    ELSE IF entropy <= 60 * Micro THEN <<2, "Good">>
    ELSE IF entropy < 128 * Micro THEN <<3, "Strong">>
    ELSE <<4, "Very Strong">>

\* lines 54-58
grade(entropy) ==
    IF entropy < 28 * Micro THEN <<0, "Weak">>
    ELSE IF entropy < 36 * Micro THEN <<1, "Fair">>
    ELSE IF entropy < 60 * Micro THEN <<2, "Good">>
    ELSE IF entropy < 128 * Micro THEN <<3, "Strong">>
    ELSE <<4, "Very Strong">>

\* a faulty variant: the empty password falls through to the pool test
calculate_strength_no_empty(pwd) ==
    LET pool == pool_size(pwd)
    IN  IF pool = 0
        THEN <<0, "Weak">>
        ELSE grade(Len(pwd) * log2(pool))

\* lines 38-58
calculate_strength(pwd) ==
    IF pwd = <<>>
    THEN <<0, "Too Short">>
    ELSE LET pool == pool_size(pwd)
         IN  IF pool = 0
             THEN <<0, "Weak">>
             ELSE grade(Len(pwd) * log2(pool))

\* the passwords the model goes through
MayType(c) ==
    IF password # <<>> /\ c = password[Len(password)]
    THEN TRUE
    ELSE Len(password) < MaxFree /\ c \notin Range(password)

\* a caller hands calculate_strength the password with one more character
TypeChar(c) ==
    /\ Len(password) < MaxPwdLen
    /\ MayType(c)
    /\ password' = Append(password, c)
    /\ strength' = calculate_strength(password')
    /\ UNCHANGED <<pc, call, source, result, window>>

\* a caller hands calculate_strength the empty string
ClearPassword ==
    /\ password # <<>>
    /\ password' = <<>>
    /\ strength' = calculate_strength(password')
    /\ UNCHANGED <<pc, call, source, result, window>>

---------------------------------------------------------------------------
(* PasswordGeneratorApp                                                    *)

\* lines 218-220: the length slider's range and its value at construction
SliderMin == 6
SliderMax == 64
SliderStart == 16

\* The window when _build_ui returns (lines 172-264): the four boxes checked and
\* the slider set before their signals are connected, so that no slot has run.
\* calls is the list of the generate calls the handlers of the last event made
\* and state is "aborted" once a slot has raised: PyQt6 ends the process then.
build_ui ==
    [chk_upper |-> TRUE, chk_lower |-> TRUE, chk_numbers |-> TRUE,
     chk_symbols |-> TRUE,
     length_slider |-> SliderStart, length_value_label |-> SliderStart,
     password_display |-> <<>>,
     strength_bar |-> 0, strength_label |-> "Weak",
     calls |-> <<>>, state |-> "running"]

\* lines 266-267
update_length_label(w, value) == [w EXCEPT !.length_value_label = value]

\* lines 285-317: the bar shows (score + 1) * 20 and the label the label
update_strength_meter(w, pwd) ==
    LET s == calculate_strength(pwd)
    IN  [w EXCEPT !.strength_bar = (s[1] + 1) * 20, !.strength_label = s[2]]

RECURSIVE generate_password(_, _)

\* a faulty variant: line 279 is missing, the handler goes on with the flags it read
generate_password_stale(w, srcs) ==
    LET length == w.length_slider
        none == ~(w.chk_upper \/ w.chk_lower \/ w.chk_numbers \/ w.chk_symbols)
        w1 == IF none
              THEN generate_password([w EXCEPT !.chk_lower = TRUE], Tail(srcs))
              ELSE w
        r == generate(length, w.chk_upper, w.chk_lower, w.chk_numbers,
                      w.chk_symbols, Head(srcs))
        w2 == [w1 EXCEPT !.calls = Append(@,
                  Invocation(length, w.chk_upper, w.chk_lower, w.chk_numbers,
                             w.chk_symbols))]
    IN  IF w1.state = "aborted" THEN w1
        ELSE IF r.status = "raised" THEN [w2 EXCEPT !.state = "aborted"]
        ELSE update_strength_meter([w2 EXCEPT !.password_display = r.value],
                                   r.value)

\* lines 269-283.  srcs are the randomness source's doings, one per generate
\* call: the head for this handler's call, the tail for the handler that
\* chk_lower.setChecked(True) runs (line 278 changes the box, stateChanged is
\* emitted and its slot, line 235, is this same handler) before line 279.
generate_password(w, srcs) ==
    LET length == w.length_slider
        use_upper == w.chk_upper
        use_numbers == w.chk_numbers
        use_symbols == w.chk_symbols
        none == ~(w.chk_upper \/ w.chk_lower \/ w.chk_numbers \/ w.chk_symbols)
        w1 == IF none
              THEN generate_password([w EXCEPT !.chk_lower = TRUE], Tail(srcs))
              ELSE w
        use_lower == IF none THEN TRUE ELSE w.chk_lower
        r == generate(length, use_upper, use_lower, use_numbers, use_symbols,
                      Head(srcs))
        w2 == [w1 EXCEPT !.calls = Append(@,
                  Invocation(length, use_upper, use_lower, use_numbers,
                             use_symbols))]
    IN  IF w1.state = "aborted" THEN w1
        ELSE IF r.status = "raised" THEN [w2 EXCEPT !.state = "aborted"]
        ELSE update_strength_meter([w2 EXCEPT !.password_display = r.value],
                                   r.value)

AppSources == Sources(MaxAppSeed, MaxAppFail)

\* the sources of one event: a second generate call is made only when the
\* handler finds no box checked
EventSources(w) ==
    IF w.chk_upper \/ w.chk_lower \/ w.chk_numbers \/ w.chk_symbols
    THEN {<<s>> : s \in AppSources}
    ELSE {<<s, t>> : s \in AppSources, t \in AppSources}

Boxes == {"chk_upper", "chk_lower", "chk_numbers", "chk_symbols"}

\* the user clicks a check box: its state changes and stateChanged runs
\* generate_password (lines 231, 235, 239, 243)
ToggleCheckbox(box) ==
    /\ window.state = "running"
    /\ LET w == [window EXCEPT ![box] = ~@, !.calls = <<>>]
       IN  \E srcs \in EventSources(w) : window' = generate_password(w, srcs)
    /\ UNCHANGED <<pc, call, source, result, password, strength>>

\* the user moves the slider to another value: valueChanged runs
\* update_length_label, then generate_password (lines 221-222)
MoveSlider(value) ==
    /\ window.state = "running"
    /\ value \in SliderMin..SliderMax
    /\ value # window.length_slider
    /\ value - SliderStart <= MaxSlide /\ SliderStart - value <= MaxSlide
    /\ LET w == update_length_label(
                    [window EXCEPT !.length_slider = value, !.calls = <<>>], value)
       IN  \E srcs \in EventSources(w) : window' = generate_password(w, srcs)
    /\ UNCHANGED <<pc, call, source, result, password, strength>>

\* the user clicks "Generate New Password" (line 263)
ClickGenerate ==
    /\ window.state = "running"
    /\ LET w == [window EXCEPT !.calls = <<>>]
       IN  \E srcs \in EventSources(w) : window' = generate_password(w, srcs)
    /\ UNCHANGED <<pc, call, source, result, password, strength>>

---------------------------------------------------------------------------
(* The specifications.                                                     *)

InitGenerate ==
    /\ pc = "idle"
    /\ call = NoCall
    /\ source = NoSource
    /\ result = NoResult
    /\ password = <<>>
    /\ strength = calculate_strength(<<>>)
    /\ window = build_ui

InitStrength ==
    /\ password = <<>>
    /\ strength = calculate_strength(password)
    /\ pc = "idle"
    /\ call = NoCall
    /\ source = NoSource
    /\ result = NoResult
    /\ window = build_ui

\* lines 81-82: __init__ builds the window and generates the first password
InitApp ==
    /\ window \in {w \in {generate_password(build_ui, <<s>>) : s \in AppSources} :
                      w.state = "running"}
    /\ pc = "idle"
    /\ call = NoCall
    /\ source = NoSource
    /\ result = NoResult
    /\ password = <<>>
    /\ strength = calculate_strength(<<>>)

\* generate, called with every length and class selection
NextGenerate ==
    \/ Generate
    \/ Forget

SpecGenerate ==
    InitGenerate /\ [][NextGenerate]_vars

\* calculate_strength, called with the passwords over Chars
NextStrength ==
    \/ \E c \in Chars : TypeChar(c)
    \/ ClearPassword

SpecStrength ==
    InitStrength /\ [][NextStrength]_vars

\* the application, driven by its user
NextApp ==
    \/ \E box \in Boxes : ToggleCheckbox(box)
    \/ \E value \in SliderMin..SliderMax : MoveSlider(value)
    \/ ClickGenerate

SpecApp ==
    InitApp /\ [][NextApp]_vars

---------------------------------------------------------------------------
(* What the properties are stated with: the four character classes as sets *)
(* of code points, and powers of a pool size as exact integers.            *)

Uppercase == 65..90
Lowercase == 97..122
Digits == 48..57
Symbols == (33..47) \cup (58..64) \cup (91..96) \cup (123..126)

\* the characters of the classes an invocation enables
ClassChars(use_upper, use_lower, use_numbers, use_symbols) ==
    (IF use_upper THEN Uppercase ELSE {})
    \cup (IF use_lower THEN Lowercase ELSE {})
    \cup (IF use_numbers THEN Digits ELSE {})
    \cup (IF use_symbols THEN Symbols ELSE {})

AnyClass(c) == c.use_upper \/ c.use_lower \/ c.use_numbers \/ c.use_symbols

CallChars(c) == ClassChars(c.use_upper, c.use_lower, c.use_numbers, c.use_symbols)

\* the place of a character in the fixed order Uppercase, Lowercase, Digits,
\* Symbols, each class in code point order
OrderKey(ch) ==
    (IF ch \in Uppercase THEN 0
     ELSE IF ch \in Lowercase THEN 1000
     ELSE IF ch \in Digits THEN 2000
     ELSE 3000) + ch

\* A natural number as its digits in base 2^15, the lowest first.
Base == 2^15

RECURSIVE TimesSmall(_, _, _)
TimesSmall(x, m, carry) ==
    IF x = <<>>
    THEN IF carry = 0 THEN <<>> ELSE <<carry>>
    ELSE <<(Head(x) * m + carry) % Base>>
         \o TimesSmall(Tail(x), m, (Head(x) * m + carry) \div Base)

RECURSIVE BitsOf(_)
BitsOf(v) == IF v = 0 THEN 0 ELSE 1 + BitsOf(v \div 2)

\* the number of binary digits of x: x >= 2^t iff BitLength(x) > t
BitLength(x) == 15 * (Len(x) - 1) + BitsOf(x[Len(x)])

\* the bit lengths of p^1, p^2, ..., p^n, given x = p^0
RECURSIVE PowerBits(_, _, _)
PowerBits(x, p, n) ==
    IF n = 0 THEN <<>>
    ELSE <<BitLength(TimesSmall(x, p, 0))>>
         \o PowerBits(TimesSmall(x, p, 0), p, n - 1)

PoolSizes == {10, 26, 32, 36, 42, 52, 58, 62, 68, 84, 94}

PowerBitsTable == [p \in PoolSizes |-> PowerBits(<<1>>, p, MaxPwdLen + 1)]

\* p^n >= 2^t, in exact integers
PowerAtLeast(p, n, t) == PowerBitsTable[p][n] > t

\* the (score, label) the threshold table gives a pool of p and a length of n
TableGrade(p, n) ==
    IF ~PowerAtLeast(p, n, 28) THEN <<0, "Weak">>
    ELSE IF ~PowerAtLeast(p, n, 36) THEN <<1, "Fair">>
    ELSE IF ~PowerAtLeast(p, n, 60) THEN <<2, "Good">>
    ELSE IF ~PowerAtLeast(p, n, 128) THEN <<3, "Strong">>
    ELSE <<4, "Very Strong">>

\* the pool size of a password by the four ASCII classes alone
ClassPool(pwd) ==
    (IF Range(pwd) \cap Uppercase # {} THEN 26 ELSE 0)
    + (IF Range(pwd) \cap Lowercase # {} THEN 26 ELSE 0)
    + (IF Range(pwd) \cap Digits # {} THEN 10 ELSE 0)
    + (IF Range(pwd) \cap Symbols # {} THEN 32 ELSE 0)

Repeat(c, n) == [i \in 1..n |-> c]

---------------------------------------------------------------------------
(* The properties.                                                         *)

\* C1: a call of generate with at least one class enabled and a length L >= 1,
\* during which the source does not fail, returns a string of exactly L
\* characters, each a character of the enabled classes.
C1_LengthAndMembership ==
    (pc = "done" /\ AnyClass(call) /\ call.length >= 1
        /\ source.failAt \notin 1..call.length)
    => /\ result.status = "returned"
       /\ Len(result.value) = call.length
       /\ \A i \in 1..Len(result.value) : result.value[i] \in CallChars(call)

\* C1 witness: all four classes, length 2, the draws giving "~A"
C1_Witness ==
    /\ pc = "done"
    /\ call = Invocation(2, TRUE, TRUE, TRUE, TRUE)
    /\ result.status = "returned"
    /\ result.value = <<126, 65>>

\* C2: a call of generate with no class enabled, or with a length <= 0, returns
\* the empty string: it does not raise and draws nothing, whatever the source
\* would have done.
C2_DegenerateInput ==
    (pc = "done" /\ (~AnyClass(call) \/ call.length <= 0))
    => /\ result.status = "returned"
       /\ result.value = <<>>
       /\ result.draws = 0

\* C2 witness: no class enabled, length 2 and a source that would fail at once
C2_Witness ==
    /\ pc = "done"
    /\ call = Invocation(2, FALSE, FALSE, FALSE, FALSE)
    /\ source.failAt = 1
    /\ result.status = "returned"
    /\ result.value = <<>>

\* C7: the alphabet a call builds is the characters of the enabled classes in
\* the fixed order Uppercase, Lowercase, Digits, Symbols, each once: 26, 26, 10
\* and 32 of them; {Digits} gives the ten digits 0..9 and no class gives the
\* empty alphabet.
C7_AlphabetOrder ==
    /\ alphabet(FALSE, FALSE, FALSE, FALSE) = <<>>
    /\ pc = "done" =>
        /\ Range(result.alphabet) = CallChars(call)
        /\ \A i \in 1..(Len(result.alphabet) - 1) :
              OrderKey(result.alphabet[i]) < OrderKey(result.alphabet[i + 1])
        /\ Len(result.alphabet) =
              (IF call.use_upper THEN 26 ELSE 0) + (IF call.use_lower THEN 26 ELSE 0)
              + (IF call.use_numbers THEN 10 ELSE 0)
              + (IF call.use_symbols THEN 32 ELSE 0)
        /\ call = Invocation(call.length, FALSE, FALSE, TRUE, FALSE)
            => result.alphabet = <<48, 49, 50, 51, 52, 53, 54, 55, 56, 57>>

\* C7 witness: a call with Lowercase and Symbols, whose alphabet is a..z
\* followed by the 32 symbols
C7_Witness ==
    /\ pc = "done"
    /\ call = Invocation(2, FALSE, TRUE, FALSE, TRUE)
    /\ Len(result.alphabet) = 58
    /\ result.alphabet[26] = 122
    /\ result.alphabet[27] = 33

\* C8: when the source fails at one of the draws of a call, the call raises:
\* it returns no value, and it draws nothing after the failing draw.
C8_FailurePropagates ==
    (pc = "done" /\ AnyClass(call) /\ source.failAt \in 1..call.length)
    => /\ result.status = "raised"
       /\ "value" \notin DOMAIN result
       /\ result.draws = source.failAt

\* C8 witness: a call of length 2 whose second draw fails
C8_Witness ==
    /\ pc = "done"
    /\ call.length = 2
    /\ AnyClass(call)
    /\ source.failAt = 2
    /\ result.status = "raised"

\* C3: for a non-empty password with pool size P > 0, the (score, label) is
\* the one the threshold table gives len * log2(P), lower bounds included:
\* the entropy is at least T iff P^len >= 2^T.
C3_Thresholds ==
    (password # <<>> /\ pool_size(password) > 0)
    => strength = TableGrade(pool_size(password), Len(password))

\* C3 witness: twelve symbols, 12 * log2(32) = 60 exactly, graded "Strong"
C3_Witness ==
    /\ password = Repeat(33, 12)
    /\ strength = <<3, "Strong">>

\* C4: the pool size of a non-empty password is the sum of 26, 26, 10 and 32
\* over the classes A-Z, a-z, 0-9 and Symbols it has a character of; other
\* characters add nothing.
C4_PoolIsClassSum ==
    password # <<>> => pool_size(password) = ClassPool(password)

\* C5: the empty password gets (0, "Too Short"), and no other password gets
\* the label "Too Short".
C5_TooShort ==
    /\ password = <<>> => strength = <<0, "Too Short">>
    /\ password # <<>> => strength[2] # "Too Short"

\* C5 witness: the empty password, graded
C5_Witness ==
    /\ password = <<>>
    /\ strength[2] = "Too Short"
    /\ strength[1] = 0

\* C6: a non-empty password with no character of the four classes gets
\* (0, "Weak").
C6_UnrecognizedIsWeak ==
    (password # <<>>
        /\ Range(password) \cap (Uppercase \cup Lowercase \cup Digits \cup Symbols) = {})
    => strength = <<0, "Weak">>

\* C10: every score is in 0..4, and a password followed by one more character
\* never scores lower than the password.
C10_Monotone ==
    /\ strength[1] \in 0..4
    /\ \A c \in Chars : calculate_strength(Append(password, c))[1] >= strength[1]

\* C10 witness: six lowercase letters score 1 where five score 0
C10_Witness ==
    /\ password = Repeat(97, 6)
    /\ strength[1] = 1
    /\ calculate_strength(Repeat(97, 5))[1] = 0

\* C9: while the application runs, between two events: a box is checked, the
\* displayed password is non-empty, as long as the slider says and made of
\* characters of the checked classes; and no handler called generate with no
\* class enabled.
C9_AppDisplay ==
    /\ \A i \in 1..Len(window.calls) : AnyClass(window.calls[i])
    /\ window.state = "running" =>
        /\ window.chk_upper \/ window.chk_lower \/ window.chk_numbers
            \/ window.chk_symbols
        /\ window.password_display # <<>>
        /\ Len(window.password_display) = window.length_slider
        /\ Range(window.password_display) \subseteq
              ClassChars(window.chk_upper, window.chk_lower, window.chk_numbers,
                         window.chk_symbols)

\* C9 witness: the last box was unchecked, the handler checked Lowercase again
\* and generate was called twice, by the nested handler and by the outer one
C9_Witness ==
    /\ window.state = "running"
    /\ Len(window.calls) = 2
    /\ window.chk_lower /\ ~window.chk_upper /\ ~window.chk_numbers
    /\ ~window.chk_symbols
    /\ window.length_slider = 17
    /\ Len(window.password_display) = 17

=============================================================================
